---------------------------- MODULE Spec2Model ----------------------------
(***************************************************************************)
(* Model of the household energy tracker: the consumption ledger, the      *)
(* energy model and the user accounts of src/lightCal.py, and the user     *)
(* accounts of src/app.py.                                                 *)
(*                                                                         *)
(* Quantities.  Energy and cost are floats in the code; here they are      *)
(* integers counting thousandths (0.2 kWh is 200, 7.8 kWh is 7800): a      *)
(* number x stands for the float nearest to x / 1000.  round(x, 2) rounds  *)
(* the exact value of that float (Round2), so a decimal tie such as 2.675  *)
(* goes where its float lies.  The error the code's float sums add         *)
(* (7.800000000000001 for 7.8) is far below one thousandth and is not      *)
(* modelled; the form's sums are multiples of 0.1 and never near a tie.    *)
(*                                                                         *)
(* Time.  datetime.now() is the clock `now`, counted in ticks; a calendar  *)
(* day has TicksPerDay ticks, strftime("%Y-%m-%d") of a datetime is its    *)
(* day number, timedelta(days=d) is d * TicksPerDay ticks.                 *)
(***************************************************************************)
EXTENDS Integers, Sequences, FiniteSets, TLC

VARIABLES
    db,                      \* module-level db handle: "EnergyTracker" or "None"
    users_collection,        \* the documents of db["users"], in natural (insertion) order
    data_collection,         \* the documents of db["data_collection"]: the login log
    consumption_collection,  \* the documents of db["consumption"], in natural (insertion) order
    now,                     \* the wall clock read by datetime.now()
    pc,                      \* per session: position inside save_consumption_data
    frame,                   \* per session: locals of the running save_consumption_data call
    calls,                   \* number of save_consumption_data calls that went to the store (bounded)
    response                 \* the value an operation has just returned, until its caller takes it

vars == <<db, users_collection, data_collection, consumption_collection, now, pc, frame, calls, response>>

(***************************************************************************)
(* Bounds                                                                  *)
(***************************************************************************)
TicksPerDay == 2
MaxTime     == 2
\* MaxCalls: the saves that go to the store in one behaviour.  Spec starts
\* them from the empty store; SpecStored starts them from a store that already
\* holds records, so that two calls reach an overwrite beside other records.
MaxCalls    == 2
MaxCount    == 1

Sessions == {"s1", "s2"}
Users    == {"u1", "u2"}
None     == "None"

(***************************************************************************)
(* Energy model                                                            *)
(***************************************************************************)
KnownKinds == {"lights", "fans", "tvs", "ac", "fridge", "washing_machine"}
OtherKinds == {"heater"}

energy_rates_fridge30 ==
    [lights |-> 200, fans |-> 200, tvs |-> 300, ac |-> 3000,
     fridge |-> 3000, washing_machine |-> 2800]

energy_rates ==
    [lights |-> 200, fans |-> 200, tvs |-> 300, ac |-> 3000,
     fridge |-> 3100, washing_machine |-> 2800]

RECURSIVE SumItems(_, _)
SumItems(appliances, keys) ==
    IF keys = {} THEN 0
    ELSE LET appliance == CHOOSE k \in keys : TRUE
             rest == SumItems(appliances, keys \ {appliance})
         IN  IF appliance \in DOMAIN energy_rates
             THEN rest + appliances[appliance] * energy_rates[appliance]
             ELSE rest

\* calculate_energy_consumption: never raises, whatever the counts
calculate_energy_consumption(appliances) ==
    SumItems(appliances, DOMAIN appliances)

rate_per_unit_nine == 8 + 1

rate_per_unit == 8

\* the size of the significand of a Python float (IEEE 754 double)
MantissaBits == 53

\* The Python float of a number of thousandths x / 1000 is the double nearest
\* to it.  FloatError gives the sign of (that double - x / 1000) for
\* 0 < x: the binary digits of x / 1000 are produced by long division until
\* MantissaBits significant ones are there, and the rest decides the
\* rounding of the last one (to nearest, ties to even).  `have` counts the
\* significant digits so far, r is the remainder in thousandths, last the
\* last digit.
RECURSIVE BitLength(_)
BitLength(i) == IF i = 0 THEN 0 ELSE 1 + BitLength(i \div 2)

RECURSIVE FloatError(_, _, _)
FloatError(have, r, last) ==
    IF r = 0 THEN 0
    ELSE IF have >= MantissaBits
        THEN IF 2 * r > 1000 THEN 1
             ELSE IF 2 * r < 1000 THEN 0 - 1
             ELSE IF last = 1 THEN 1 ELSE 0 - 1
    ELSE LET bit  == (2 * r) \div 1000
             rest == (2 * r) % 1000
         IN  IF have = 0 /\ bit = 0 THEN FloatError(0, rest, 0)
             ELSE FloatError(have + 1, rest, bit)

\* round(x, 2) of a float x >= 0 given in thousandths: the multiple of 10
\* nearest to the float's exact value, ties to even.  A decimal with third
\* digit 5 is a tie only when the float holds it exactly; otherwise the float
\* lies above or below it and round follows the float (round(2.675, 2) is
\* 2.67, round(0.015, 2) is 0.01 and round(0.125, 2) is 0.12).
Round2Magnitude(x) ==
    LET q == x \div 10
        r == x % 10
        e == FloatError(BitLength(x \div 1000), x % 1000, (x \div 1000) % 2)
    IN  IF r < 5 THEN 10 * q
        ELSE IF r > 5 THEN 10 * (q + 1)
        ELSE IF e > 0 THEN 10 * (q + 1)
        ELSE IF e < 0 THEN 10 * q
        ELSE IF q % 2 = 0 THEN 10 * q ELSE 10 * (q + 1)

\* round(x, 2) on a number of thousandths
Round2(x) ==
    IF x < 0 THEN 0 - Round2Magnitude(0 - x) ELSE Round2Magnitude(x)

(***************************************************************************)
(* Dates                                                                   *)
(***************************************************************************)
\* today.strftime("%Y-%m-%d"): the calendar day of a datetime
DateOf(t) == t \div TicksPerDay

\* today.strftime("%A"): the weekday of a datetime
DayOfWeek(t) == DateOf(t) % 7

\* timedelta(days=days)
timedelta(days) == days * TicksPerDay

(***************************************************************************)
(* The document store                                                      *)
(***************************************************************************)
NoDoc ==
    [_id |-> 0, username |-> "", date |-> 0 - 1, day_of_week |-> 0,
     timestamp |-> 0 - 1, appliances |-> <<>>,
     total_energy_kwh |-> 0, estimated_cost |-> 0]

BuildDataShiftedDate(username, appliances, total_energy, cost, today) ==
    [username         |-> username,
     date             |-> DateOf(today + 1),
     day_of_week      |-> DayOfWeek(today + 1),
     timestamp        |-> today,
     appliances       |-> appliances,
     total_energy_kwh |-> Round2(total_energy),
     estimated_cost   |-> Round2(cost)]

\* the dict `data` built by save_consumption_data
BuildData(username, appliances, total_energy, cost, today) ==
    [username         |-> username,
     date             |-> DateOf(today),
     day_of_week      |-> DayOfWeek(today),
     timestamp        |-> today,
     appliances       |-> appliances,
     total_energy_kwh |-> Round2(total_energy),
     estimated_cost   |-> Round2(cost)]

Matches(coll, username, date) ==
    {i \in DOMAIN coll : coll[i].username = username /\ coll[i].date = date}

\* consumption_collection.find_one({"username": u, "date": d}): first match or None (NoDoc)
FindOne(coll, username, date) ==
    LET m == Matches(coll, username, date)
    IN  IF m = {} THEN NoDoc
        ELSE coll[CHOOSE i \in m : \A j \in m : i <= j]

UpdateOneByUsername(coll, id, data) ==
    [i \in DOMAIN coll |->
        IF coll[i].username = data.username
        THEN [f \in DOMAIN coll[i] |->
                 IF f \in DOMAIN data THEN data[f] ELSE coll[i][f]]
        ELSE coll[i]]

\* consumption_collection.update_one({"_id": id}, {"$set": data})
UpdateOne(coll, id, data) ==
    [i \in DOMAIN coll |->
        IF coll[i]._id = id
        THEN [f \in DOMAIN coll[i] |->
                 IF f \in DOMAIN data THEN data[f] ELSE coll[i][f]]
        ELSE coll[i]]

\* consumption_collection.insert_one(data): a fresh _id, appended in natural order
InsertOne(coll, data) ==
    Append(coll, [f \in DOMAIN data \cup {"_id"} |->
                     IF f = "_id" THEN Len(coll) + 1 ELSE data[f]])

\* the update-or-insert of save_consumption_data, lines 123-129
WriteDoc(coll, existing, data) ==
    IF existing # NoDoc
    THEN UpdateOne(coll, existing._id, data)
    ELSE InsertOne(coll, data)

RECURSIVE InsertSorted(_, _)
InsertSorted(sorted, doc) ==
    IF sorted = <<>> THEN <<doc>>
    ELSE IF sorted[Len(sorted)].timestamp <= doc.timestamp
         THEN Append(sorted, doc)
         ELSE Append(InsertSorted(SubSeq(sorted, 1, Len(sorted) - 1), doc),
                     sorted[Len(sorted)])

RECURSIVE SortByTimestamp(_)
NoSort(docs) == docs

\* .sort("timestamp", 1): ascending, documents of equal timestamp in natural order
SortByTimestamp(docs) ==
    IF docs = <<>> THEN <<>>
    ELSE InsertSorted(SortByTimestamp(SubSeq(docs, 1, Len(docs) - 1)), docs[Len(docs)])

\* find({"username": u, "timestamp": {"$gte": start_date}})
FindSince(coll, username, start_date) ==
    LET Test(doc) == doc.username = username /\ doc.timestamp >= start_date
    IN  SelectSeq(coll, Test)

\* the windows asked for: as many days back as the clock of the model has days
Windows == 0..(MaxTime \div TicksPerDay)

\* get_user_consumption_data, line 141: the start of the window, from the
\* clock as the call reads it
StartDate(clock, days) == clock - timedelta(days)

\* get_user_consumption_data, lines 143-152: the query with the start_date
\* computed before it, on the collection as it is when the query runs; an
\* exception of the query gives []
get_user_consumption_data(coll, username, start_date, raises) ==
    IF raises THEN <<>>
    ELSE SortByTimestamp(FindSince(coll, username, start_date))

(***************************************************************************)
(* Inputs                                                                  *)
(***************************************************************************)
\* what the form can submit: number_input fields with min_value=0
FormVector(l) ==
    [k \in KnownKinds |-> IF k = "lights" THEN l ELSE 0]

FormVectors == {FormVector(0), FormVector(1), FormVector(2)}

ExampleVector ==
    [lights |-> 5, fans |-> 2, tvs |-> 1, ac |-> 1, fridge |-> 1, washing_machine |-> 0]

\* what calculate_energy_consumption can be called with: any mapping
CalcVectors ==
    UNION {[D -> (0 - 1)..MaxCount] : D \in SUBSET (KnownKinds \cup OtherKinds)}
        \cup {ExampleVector}

(***************************************************************************)
(* Responses                                                               *)
(***************************************************************************)
NoArgs == [appliances |-> <<>>, total_energy |-> 0, cost |-> 0]

\* a quotient the code computes with /, kept exact as numerator and denominator
Zero == [num |-> 0, den |-> 1]

\* what a page shows: the metrics of show_dashboard_home and show_analytics
NoView ==
    [state |-> "none", total_energy |-> 0, total_cost |-> 0,
     avg_daily |-> Zero, monthly_projection |-> Zero, high_consumption |-> <<>>]

\* the email and password a sign-up or login form was submitted with
NoCredentials == [email |-> "", password |-> ""]

NoResponse ==
    [op |-> "none", username |-> "", ok |-> FALSE, raised |-> "none",
     args |-> NoArgs, today |-> 0 - 1, existing |-> NoDoc,
     days |-> 0, result |-> <<>>, view |-> NoView,
     credentials |-> NoCredentials]

NoFrame == [username |-> "", args |-> NoArgs, data |-> NoDoc, existing |-> NoDoc]

SaveResponse(username, args, today, ok, existing) ==
    [NoResponse EXCEPT !.op = "save", !.username = username,
                       !.ok = ok, !.args = args, !.today = today,
                       !.existing = existing]

(***************************************************************************)
(* Initial state                                                           *)
(***************************************************************************)
Init ==
    /\ db \in {"EnergyTracker", None}
    /\ users_collection = <<>>
    /\ data_collection = <<>>
    /\ consumption_collection = <<>>
    /\ now = 0
    /\ pc = [s \in Sessions |-> "idle"]
    /\ frame = [s \in Sessions |-> NoFrame]
    /\ calls = 0
    /\ response = NoResponse

(***************************************************************************)
(* Actions shared by the specifications                                    *)
(***************************************************************************)
\* time passes
Tick ==
    /\ response = NoResponse
    /\ now < MaxTime
    /\ now' = now + 1
    /\ UNCHANGED <<db, users_collection, data_collection, consumption_collection, pc, frame, calls, response>>

\* the caller has taken the returned value: the script run of the session ends
Return ==
    /\ response # NoResponse
    /\ response' = NoResponse
    /\ UNCHANGED <<db, users_collection, data_collection, consumption_collection, now, pc, frame, calls>>

FormArgs(v) ==
    LET total_energy == calculate_energy_consumption(v)
    IN  [appliances |-> v, total_energy |-> total_energy,
         cost |-> total_energy * rate_per_unit]

\* show_energy_input_form: the find_one of line 407 runs outside any try and raises
FormRenderRaises(s, u) ==
    /\ response = NoResponse
    /\ pc[s] = "idle"
    /\ db # None
    /\ response' = [NoResponse EXCEPT !.op = "form", !.username = u,
                                      !.raised = "storage"]
    /\ UNCHANGED <<db, users_collection, data_collection, consumption_collection, now, pc, frame, calls>>

\* show_energy_input_form, submit with total_energy = 0: the warning branch, no save
FormWarns(s, u, v) ==
    /\ response = NoResponse
    /\ pc[s] = "idle"
    /\ ~(FormArgs(v).total_energy > 0)
    /\ response' = [NoResponse EXCEPT !.op = "form", !.username = u,
                                      !.args = FormArgs(v)]
    /\ UNCHANGED <<db, users_collection, data_collection, consumption_collection, now, pc, frame, calls>>

\* the locals of get_user_consumption_data between the clock read and the query
GetFrame(username, days, today) ==
    [username |-> username, days |-> days, today |-> today,
     start_date |-> StartDate(today, days)]

GetResponse(username, days, today, ok, raised, result) ==
    [NoResponse EXCEPT !.op = "get", !.username = username, !.days = days,
                       !.today = today, !.ok = ok, !.raised = raised,
                       !.result = result]

\* get_user_consumption_data with db None: lines 138-139
GetNoDb(s, u, days) ==
    /\ response = NoResponse
    /\ pc[s] = "idle"
    /\ db = None
    /\ response' = GetResponse(u, days, now, FALSE, "none", <<>>)
    /\ UNCHANGED <<db, users_collection, data_collection, consumption_collection, now, pc, frame, calls>>

\* get_user_consumption_data reads the clock and computes start_date (line 141)
Get(s, u, days) ==
    /\ response = NoResponse
    /\ pc[s] = "idle"
    /\ db # None
    /\ pc' = [pc EXCEPT ![s] = "find"]
    /\ frame' = [frame EXCEPT ![s] = GetFrame(u, days, now)]
    /\ UNCHANGED <<db, users_collection, data_collection, consumption_collection, now, calls, response>>

\* the find round trip of lines 144-147 and the return; other sessions' steps
\* and ticks of the clock may have come since the clock was read
GetFind(s, raises) ==
    /\ response = NoResponse
    /\ pc[s] = "find"
    /\ response' = GetResponse(frame[s].username, frame[s].days, frame[s].today,
                               ~raises, IF raises THEN "storage" ELSE "none",
                               get_user_consumption_data(
                                   consumption_collection, frame[s].username,
                                   frame[s].start_date, raises))
    /\ pc' = [pc EXCEPT ![s] = "idle"]
    /\ frame' = [frame EXCEPT ![s] = NoFrame]
    /\ UNCHANGED <<db, users_collection, data_collection, consumption_collection, now, calls>>

(***************************************************************************)
(* Concurrent sessions: save_consumption_data is three steps, the local    *)
(* part up to the clock read (SaveBegin), the find_one round trip          *)
(* (SaveFind) and the update_one/insert_one round trip (SaveWrite); steps  *)
(* of different sessions interleave.                                       *)
(***************************************************************************)
\* save_consumption_data with db None: line 102
SaveNoDb(s, u, v) ==
    /\ response = NoResponse
    /\ pc[s] = "idle"
    /\ FormArgs(v).total_energy > 0
    /\ db = None
    /\ response' = SaveResponse(u, FormArgs(v), now, FALSE, NoDoc)
    /\ UNCHANGED <<db, users_collection, data_collection, consumption_collection, now, pc, frame, calls>>

SaveBeginAnyEnergy(s, u, v) ==
    /\ response = NoResponse
    /\ pc[s] = "idle"
    /\ calls < MaxCalls
    /\ db # None
    /\ calls' = calls + 1
    /\ LET a == FormArgs(v)
       IN  frame' = [frame EXCEPT ![s] =
                        [username |-> u, args |-> a,
                         data |-> BuildData(u, a.appliances, a.total_energy, a.cost, now),
                         existing |-> NoDoc]]
    /\ pc' = [pc EXCEPT ![s] = "find_one"]
    /\ UNCHANGED <<db, users_collection, data_collection, consumption_collection, now, response>>

\* form submitted with total_energy > 0; save_consumption_data reads the clock, builds data
SaveBegin(s, u, v) ==
    /\ response = NoResponse
    /\ pc[s] = "idle"
    /\ calls < MaxCalls
    /\ FormArgs(v).total_energy > 0
    /\ db # None
    /\ calls' = calls + 1
    /\ LET a == FormArgs(v)
       IN  frame' = [frame EXCEPT ![s] =
                        [username |-> u, args |-> a,
                         data |-> BuildData(u, a.appliances, a.total_energy, a.cost, now),
                         existing |-> NoDoc]]
    /\ pc' = [pc EXCEPT ![s] = "find_one"]
    /\ UNCHANGED <<db, users_collection, data_collection, consumption_collection, now, response>>

\* existing = consumption_collection.find_one(...)
SaveFind(s) ==
    /\ response = NoResponse
    /\ pc[s] = "find_one"
    /\ frame' = [frame EXCEPT ![s].existing =
                    FindOne(consumption_collection, frame[s].username, frame[s].data.date)]
    /\ pc' = [pc EXCEPT ![s] = "write"]
    /\ UNCHANGED <<db, users_collection, data_collection, consumption_collection, now, calls, response>>

\* update_one or insert_one, then return True
SaveWrite(s) ==
    /\ response = NoResponse
    /\ pc[s] = "write"
    /\ consumption_collection' =
           WriteDoc(consumption_collection, frame[s].existing, frame[s].data)
    /\ pc' = [pc EXCEPT ![s] = "idle"]
    /\ frame' = [frame EXCEPT ![s] = NoFrame]
    /\ response' = SaveResponse(frame[s].username, frame[s].args,
                                frame[s].data.timestamp, TRUE, frame[s].existing)
    /\ UNCHANGED <<db, users_collection, data_collection, now, calls>>

SaveRaisesReturnsTrue(s) ==
    /\ response = NoResponse
    /\ pc[s] \in {"find_one", "write"}
    /\ pc' = [pc EXCEPT ![s] = "idle"]
    /\ frame' = [frame EXCEPT ![s] = NoFrame]
    /\ response' = [SaveResponse(frame[s].username, frame[s].args,
                                 frame[s].data.timestamp, TRUE, frame[s].existing)
                       EXCEPT !.raised = "storage"]
    /\ UNCHANGED <<db, users_collection, data_collection, consumption_collection, now, calls>>

\* a storage operation of save_consumption_data raises: the except branch returns False
SaveRaises(s) ==
    /\ response = NoResponse
    /\ pc[s] \in {"find_one", "write"}
    /\ pc' = [pc EXCEPT ![s] = "idle"]
    /\ frame' = [frame EXCEPT ![s] = NoFrame]
    /\ response' = [SaveResponse(frame[s].username, frame[s].args,
                                 frame[s].data.timestamp, FALSE, frame[s].existing)
                       EXCEPT !.raised = "storage"]
    /\ UNCHANGED <<db, users_collection, data_collection, consumption_collection, now, calls>>

Next ==
    \/ Tick
    \/ Return
    \/ \E s \in Sessions, u \in Users : FormRenderRaises(s, u)
    \/ \E s \in Sessions, u \in Users, v \in FormVectors : FormWarns(s, u, v)
    \/ \E s \in Sessions, u \in Users, v \in FormVectors : SaveNoDb(s, u, v)
    \/ \E s \in Sessions, u \in Users, v \in FormVectors : SaveBegin(s, u, v)
    \/ \E s \in Sessions : SaveFind(s)
    \/ \E s \in Sessions : SaveWrite(s)
    \/ \E s \in Sessions : SaveRaises(s)
    \/ \E s \in Sessions, u \in Users, days \in Windows : GetNoDb(s, u, days)
    \/ \E s \in Sessions, u \in Users, days \in Windows : Get(s, u, days)
    \/ \E s \in Sessions, raises \in BOOLEAN : GetFind(s, raises)

Spec == Init /\ [][Next]_vars

(***************************************************************************)
(* Saves into a store that already holds records.  The database outlives   *)
(* the script: init_connection opens db["consumption"] with whatever       *)
(* earlier runs have saved.  SpecStored starts the sessions' saves from    *)
(* such a store, so that an update_one runs while records of another user  *)
(* and of another day are present.                                         *)
(***************************************************************************)
\* the record an earlier save of one light by user u left, stamped at the
\* instant the clock starts from
StoredRecord(u) ==
    LET a == FormArgs(FormVector(1))
    IN  BuildData(u, a.appliances, a.total_energy, a.cost, 0)

\* the stores the script can find: one user's record, or a record of each of
\* two users in either insertion order
StoredStores ==
    {InsertOne(<<>>, StoredRecord(u)) : u \in Users}
    \cup {InsertOne(InsertOne(<<>>, StoredRecord(p[1])), StoredRecord(p[2])) :
             p \in {q \in Users \X Users : q[1] # q[2]}}

InitStored ==
    /\ db \in {"EnergyTracker", None}
    /\ users_collection = <<>>
    /\ data_collection = <<>>
    /\ consumption_collection \in StoredStores
    /\ now = 0
    /\ pc = [s \in Sessions |-> "idle"]
    /\ frame = [s \in Sessions |-> NoFrame]
    /\ calls = 0
    /\ response = NoResponse

NextStored ==
    \/ Tick
    \/ Return
    \/ \E s \in Sessions, u \in Users, v \in FormVectors : SaveNoDb(s, u, v)
    \/ \E s \in Sessions, u \in Users, v \in FormVectors : SaveBegin(s, u, v)
    \/ \E s \in Sessions : SaveFind(s)
    \/ \E s \in Sessions : SaveWrite(s)
    \/ \E s \in Sessions : SaveRaises(s)

SpecStored == InitStored /\ [][NextStored]_vars

(***************************************************************************)
(* The energy model alone: calculate_energy_consumption and the cost of    *)
(* lines 453-455 applied to any mapping                                    *)
(***************************************************************************)
Calc(v) ==
    /\ response = NoResponse
    /\ response' = [NoResponse EXCEPT !.op = "calc", !.ok = TRUE, !.args = FormArgs(v)]
    /\ UNCHANGED <<db, users_collection, data_collection, consumption_collection, now, pc, frame, calls>>

NextCalc ==
    /\ response = NoResponse
    /\ \E v \in CalcVectors : Calc(v)

SpecCalc == Init /\ [][NextCalc]_vars

(***************************************************************************)
(* The aggregates of the pages, computed from the sequence that            *)
(* get_user_consumption_data returned                                      *)
(***************************************************************************)
MaxRecords == 3

RECURSIVE SumEnergy(_)
\* sum(entry['total_energy_kwh'] for entry in data)
SumEnergy(data) ==
    IF data = <<>> THEN 0
    ELSE SumEnergy(SubSeq(data, 1, Len(data) - 1)) + data[Len(data)].total_energy_kwh

RECURSIVE SumCost(_)
\* sum(entry['estimated_cost'] for entry in data)
SumCost(data) ==
    IF data = <<>> THEN 0
    ELSE SumCost(SubSeq(data, 1, Len(data) - 1)) + data[Len(data)].estimated_cost

\* show_dashboard_home, lines 353-365
show_dashboard_home(recent_data) ==
    IF recent_data = <<>>
    THEN [NoView EXCEPT !.state = "no_data"]
    ELSE LET total_energy == SumEnergy(recent_data)
             total_cost   == SumCost(recent_data)
             avg_daily    == [num |-> total_energy, den |-> Len(recent_data)]
         IN  [NoView EXCEPT
                 !.state = "shown",
                 !.total_energy = total_energy,
                 !.total_cost = total_cost,
                 !.avg_daily = avg_daily,
                 !.monthly_projection = [num |-> avg_daily.num * 30, den |-> avg_daily.den]]

high_consumption_from_15(data) ==
    LET Test(entry) == entry.total_energy_kwh >= 15000
        Pair(entry) == <<entry.date, entry.total_energy_kwh>>
        high == SelectSeq(data, Test)
    IN  [i \in DOMAIN high |-> Pair(high[i])]

\* the (date, energy) pairs with energy > 15 kWh, line 507
high_consumption(data) ==
    LET Test(entry) == entry.total_energy_kwh > 15000
        Pair(entry) == <<entry.date, entry.total_energy_kwh>>
        high == SelectSeq(data, Test)
    IN  [i \in DOMAIN high |-> Pair(high[i])]

\* show_analytics, lines 489-561
show_analytics(data) ==
    IF data = <<>>
    THEN [NoView EXCEPT !.state = "no_data"]
    ELSE [NoView EXCEPT
             !.state = "shown",
             !.total_energy = SumEnergy(data),
             !.total_cost = SumCost(data),
             !.avg_daily = [num |-> SumEnergy(data), den |-> Len(data)],
             !.high_consumption = high_consumption(data)]

\* what the form can submit for one day: 5, 10, 15 and 16 kWh
AggVector(l, a) ==
    [k \in KnownKinds |-> IF k = "lights" THEN l ELSE IF k = "ac" THEN a ELSE 0]

AggVectors == {AggVector(25, 0), AggVector(50, 0), AggVector(0, 5), AggVector(5, 5)}

\* the record of day i - 1 saved from vector v
AggDoc(i, v) ==
    LET a    == FormArgs(v)
        data == BuildData("u1", a.appliances, a.total_energy, a.cost,
                          (i - 1) * TicksPerDay)
    IN  [f \in DOMAIN data \cup {"_id"} |-> IF f = "_id" THEN i ELSE data[f]]

\* the sequences get_user_consumption_data can return: one record per day, ascending
AggInputs ==
    UNION {{[i \in 1..n |-> AggDoc(i, vs[i])] : vs \in [1..n -> AggVectors]} :
              n \in 0..MaxRecords}

\* the dashboard page over the records the query returned
Dashboard(recs) ==
    /\ response' = [NoResponse EXCEPT !.op = "dashboard", !.username = "u1", !.ok = TRUE,
                                      !.result = recs,
                                      !.view = show_dashboard_home(recs)]
    /\ UNCHANGED <<db, users_collection, data_collection, consumption_collection, now, pc, frame, calls>>

\* the analytics page over the records the query returned
Analytics(recs) ==
    /\ response' = [NoResponse EXCEPT !.op = "analytics", !.username = "u1", !.ok = TRUE,
                                      !.result = recs,
                                      !.view = show_analytics(recs)]
    /\ UNCHANGED <<db, users_collection, data_collection, consumption_collection, now, pc, frame, calls>>

NextAgg ==
    /\ response = NoResponse
    /\ \/ \E recs \in AggInputs : Dashboard(recs)
       \/ \E recs \in AggInputs : Analytics(recs)

SpecAgg == Init /\ [][NextAgg]_vars

(***************************************************************************)
(* User accounts: create_user, authenticate_user and the profile form of   *)
(* lightCal.py, and create_user and authenticate_user of app.py, the same  *)
(* application without profiles and login log, over the same "users"       *)
(* collection of the "EnergyTracker" database.                             *)
(*                                                                         *)
(* Every storage round trip is a step of its own, so the steps of the      *)
(* sessions interleave between a find_one and the write that follows it.   *)
(* A session keeps in its frame what the call holds between two steps;     *)
(* `since` is the clock at the earlier step, and a datetime.now() read     *)
(* between the two steps is any clock value from `since` to `now`.         *)
(* An Optional[Dict] is a sequence of at most one document.                *)
(***************************************************************************)
MaxUserCalls == 3

Passwords == {"pw1", "pw2"}
Emails    == {"a@x", "b@x"}

\* the truth value of a pymongo Database or Collection object, `if db` and
\* `not users_collection` in app.py: PyMongo 3 objects are true, PyMongo 4
\* objects raise NotImplementedError; src/ does not say which is installed
TruthRules == {"pymongo3", "pymongo4"}

HandleTruth(dbv, rule) ==
    IF dbv = None THEN "false"
    ELSE IF rule = "pymongo4" THEN "NotImplementedError"
    ELSE "true"

\* hashlib.sha256(password.encode()).hexdigest(): the digest of a password is
\* a value of another kind than the password, different for different passwords
hash_password(password) == <<"sha256", password>>

verify_password(password, hashed) == hash_password(password) = hashed

DefaultProfile ==
    [city |-> "", area |-> "", age |-> 0, phone |-> "", full_name |-> "",
     occupation |-> "", household_size |-> 1]

\* the profile the profile form is submitted with
FormProfile ==
    [city |-> "Pune", area |-> "", age |-> 25, phone |-> "", full_name |-> "",
     occupation |-> "", household_size |-> 1]

MatchesUser(coll, username) ==
    {i \in DOMAIN coll : coll[i].username = username}

\* users_collection.find_one({"username": u}): the first match, or None
FindUser(coll, username) ==
    LET m == MatchesUser(coll, username)
    IN  IF m = {} THEN <<>>
        ELSE <<coll[CHOOSE i \in m : \A j \in m : i <= j]>>

\* $set on a document: named fields are replaced or added, the others kept
SetFields(doc, upd) ==
    [k \in DOMAIN doc \cup DOMAIN upd |->
        IF k \in DOMAIN upd THEN upd[k] ELSE doc[k]]

\* lightCal.create_user up to the return of find_one (lines 45-50).  find_one
\* is outside the try: its exception leaves the function.  goes_on says
\* whether the call goes on to build and insert the account.
create_user_find_one(coll, dbv, username, failAt) ==
    IF dbv = None THEN [goes_on |-> FALSE, raised |-> "none"]
    ELSE IF failAt = "find_one" THEN [goes_on |-> FALSE, raised |-> "find_one"]
    ELSE [goes_on |-> FindUser(coll, username) = <<>>, raised |-> "none"]

\* lightCal.create_user from user_data to the return (lines 52-73): the
\* exception of insert_one is caught and False returned
create_user_insert_one(coll, username, email, password, created_at, failAt) ==
    LET user_data == [username   |-> username,
                      email      |-> email,
                      password   |-> hash_password(password),
                      created_at |-> created_at,
                      profile    |-> DefaultProfile]
    IN  IF failAt = "insert_one"
        THEN [users |-> coll, ok |-> FALSE, raised |-> "none"]
        ELSE [users |-> Append(coll, user_data), ok |-> TRUE, raised |-> "none"]

\* app.create_user up to the return of find_one (lines 47-50)
create_user_app_find_one(coll, dbv, rule, username, failAt) ==
    IF HandleTruth(dbv, rule) = "false" THEN [goes_on |-> FALSE, raised |-> "none"]
    ELSE IF HandleTruth(dbv, rule) = "NotImplementedError"
        THEN [goes_on |-> FALSE, raised |-> "NotImplementedError"]
    ELSE IF failAt = "find_one" THEN [goes_on |-> FALSE, raised |-> "find_one"]
    ELSE [goes_on |-> FindUser(coll, username) = <<>>, raised |-> "none"]

\* app.create_user, the insert (lines 51-57): no profile, and no try
create_user_app_insert_one(coll, username, email, password, created_at, failAt) ==
    LET user_data == [username   |-> username,
                      email      |-> email,
                      password   |-> hash_password(password),
                      created_at |-> created_at]
    IN  IF failAt = "insert_one"
        THEN [users |-> coll, ok |-> FALSE, raised |-> "insert_one"]
        ELSE [users |-> Append(coll, user_data), ok |-> TRUE, raised |-> "none"]

\* lightCal.authenticate_user up to the password test (lines 77-81): the user
\* document the call goes on with, or None
authenticate_user_find_one(coll, dbv, username, password, failAt) ==
    LET user == FindUser(coll, username)
    IN  IF dbv = None THEN [user |-> <<>>, raised |-> "none"]
        ELSE IF failAt = "find_one" THEN [user |-> <<>>, raised |-> "find_one"]
        ELSE IF user # <<>> /\ verify_password(password, user[1].password)
            THEN [user |-> user, raised |-> "none"]
        ELSE [user |-> <<>>, raised |-> "none"]

\* lightCal.authenticate_user, the login log (lines 83-96): login_time,
\* login_date and session_id come from three reads of the clock, and a
\* failure to write the log is caught
authenticate_user_insert_one(logs, username, time1, time2, time3, failAt) ==
    LET login_data == [username   |-> username,
                       login_time |-> time1,
                       login_date |-> DateOf(time2),
                       session_id |-> time3,
                       ip_address |-> "localhost",
                       user_agent |-> "Streamlit App"]
    IN  IF failAt = "insert_one" THEN logs ELSE Append(logs, login_data)

\* app.authenticate_user: one round trip
authenticate_user_app(coll, dbv, rule, username, password, failAt) ==
    LET user == FindUser(coll, username)
    IN  IF HandleTruth(dbv, rule) = "false" THEN [user |-> <<>>, raised |-> "none"]
        ELSE IF HandleTruth(dbv, rule) = "NotImplementedError"
            THEN [user |-> <<>>, raised |-> "NotImplementedError"]
        ELSE IF failAt = "find_one" THEN [user |-> <<>>, raised |-> "find_one"]
        ELSE IF user # <<>> /\ verify_password(password, user[1].password)
            THEN [user |-> user, raised |-> "none"]
        ELSE [user |-> <<>>, raised |-> "none"]

\* users_collection.update_one({"username": u}, {"$set": ...}) of the profile
\* form: the first match gets the profile fields, email and updated_at
UpdateUser(coll, username, email, updated_at) ==
    LET m == MatchesUser(coll, username)
        first == CHOOSE i \in m : \A j \in m : i <= j
    IN  IF m = {} THEN coll
        ELSE [coll EXCEPT ![first] =
                 SetFields(coll[first], [profile    |-> FormProfile,
                                         email      |-> email,
                                         updated_at |-> updated_at])]

\* the locals of an account operation between two storage round trips
UserFrame(username, email, password, since, user) ==
    [username |-> username, email |-> email, password |-> password,
     since |-> since, user |-> user]

CreateResponse(username, email, password, ok, raised) ==
    [NoResponse EXCEPT !.op = "create_user", !.username = username,
                       !.ok = ok, !.raised = raised,
                       !.credentials = [email |-> email, password |-> password]]

AuthResponse(username, password, user, raised) ==
    [NoResponse EXCEPT !.op = "authenticate_user", !.username = username,
                       !.ok = (user # <<>>), !.raised = raised,
                       !.result = user,
                       !.credentials = [email |-> "", password |-> password]]

ProfileResponse(username, email, ok, raised) ==
    [NoResponse EXCEPT !.op = "profile", !.username = username,
                       !.ok = ok, !.raised = raised,
                       !.credentials = [email |-> email, password |-> ""]]

\* sign-up form of lightCal.py: create_user to the return of its find_one
CreateUser(s, u, e, p, failAt) ==
    /\ response = NoResponse
    /\ pc[s] = "idle"
    /\ calls < MaxUserCalls
    /\ calls' = calls + 1
    /\ LET r == create_user_find_one(users_collection, db, u, failAt)
       IN  IF r.goes_on
           THEN /\ pc' = [pc EXCEPT ![s] = "create_user"]
                /\ frame' = [frame EXCEPT ![s] = UserFrame(u, e, p, now, <<>>)]
                /\ UNCHANGED response
           ELSE /\ response' = CreateResponse(u, e, p, FALSE, r.raised)
                /\ UNCHANGED <<pc, frame>>
    /\ UNCHANGED <<db, users_collection, data_collection, consumption_collection, now>>

\* create_user: user_data is built and inserted
CreateUserInsert(s, created_at, failAt) ==
    /\ response = NoResponse
    /\ pc[s] = "create_user"
    /\ created_at \in frame[s].since..now
    /\ LET f == frame[s]
           r == create_user_insert_one(users_collection, f.username, f.email,
                                       f.password, created_at, failAt)
       IN  /\ users_collection' = r.users
           /\ response' = CreateResponse(f.username, f.email, f.password, r.ok, r.raised)
    /\ pc' = [pc EXCEPT ![s] = "idle"]
    /\ frame' = [frame EXCEPT ![s] = NoFrame]
    /\ UNCHANGED <<db, data_collection, consumption_collection, now, calls>>

\* sign-up form of app.py: create_user to the return of its find_one
CreateUserApp(s, u, e, p, rule, failAt) ==
    /\ response = NoResponse
    /\ pc[s] = "idle"
    /\ calls < MaxUserCalls
    /\ calls' = calls + 1
    /\ LET r == create_user_app_find_one(users_collection, db, rule, u, failAt)
       IN  IF r.goes_on
           THEN /\ pc' = [pc EXCEPT ![s] = "create_user_app"]
                /\ frame' = [frame EXCEPT ![s] = UserFrame(u, e, p, now, <<>>)]
                /\ UNCHANGED response
           ELSE /\ response' = CreateResponse(u, e, p, FALSE, r.raised)
                /\ UNCHANGED <<pc, frame>>
    /\ UNCHANGED <<db, users_collection, data_collection, consumption_collection, now>>

\* app.create_user: the account is inserted
CreateUserAppInsert(s, created_at, failAt) ==
    /\ response = NoResponse
    /\ pc[s] = "create_user_app"
    /\ created_at \in frame[s].since..now
    /\ LET f == frame[s]
           r == create_user_app_insert_one(users_collection, f.username, f.email,
                                           f.password, created_at, failAt)
       IN  /\ users_collection' = r.users
           /\ response' = CreateResponse(f.username, f.email, f.password, r.ok, r.raised)
    /\ pc' = [pc EXCEPT ![s] = "idle"]
    /\ frame' = [frame EXCEPT ![s] = NoFrame]
    /\ UNCHANGED <<db, data_collection, consumption_collection, now, calls>>

\* login form of lightCal.py: authenticate_user to the password test
Authenticate(s, u, p, failAt) ==
    /\ response = NoResponse
    /\ pc[s] = "idle"
    /\ calls < MaxUserCalls
    /\ calls' = calls + 1
    /\ LET r == authenticate_user_find_one(users_collection, db, u, p, failAt)
       IN  IF r.user # <<>>
           THEN /\ pc' = [pc EXCEPT ![s] = "authenticate_user"]
                /\ frame' = [frame EXCEPT ![s] = UserFrame(u, "", p, now, r.user)]
                /\ UNCHANGED response
           ELSE /\ response' = AuthResponse(u, p, <<>>, r.raised)
                /\ UNCHANGED <<pc, frame>>
    /\ UNCHANGED <<db, users_collection, data_collection, consumption_collection, now>>

\* authenticate_user: the login is logged and the user found earlier returned
AuthenticateLog(s, time1, time2, time3, failAt) ==
    /\ response = NoResponse
    /\ pc[s] = "authenticate_user"
    /\ time1 \in frame[s].since..now
    /\ time2 \in time1..now
    /\ time3 \in time2..now
    /\ data_collection' =
           authenticate_user_insert_one(data_collection, frame[s].username,
                                        time1, time2, time3, failAt)
    /\ response' = AuthResponse(frame[s].username, frame[s].password,
                                frame[s].user, "none")
    /\ pc' = [pc EXCEPT ![s] = "idle"]
    /\ frame' = [frame EXCEPT ![s] = NoFrame]
    /\ UNCHANGED <<db, users_collection, consumption_collection, now, calls>>

\* login form of app.py
AuthenticateApp(s, u, p, rule, failAt) ==
    /\ response = NoResponse
    /\ pc[s] = "idle"
    /\ calls < MaxUserCalls
    /\ calls' = calls + 1
    /\ LET r == authenticate_user_app(users_collection, db, rule, u, p, failAt)
       IN  response' = AuthResponse(u, p, r.user, r.raised)
    /\ UNCHANGED <<db, users_collection, data_collection, consumption_collection, now, pc, frame>>

\* show_profile with the profile form submitted, to the return of its find_one
\* (line 568, outside any try); without the user the page ends there
ShowProfile(s, u, failAt) ==
    /\ response = NoResponse
    /\ pc[s] = "idle"
    /\ calls < MaxUserCalls
    /\ calls' = calls + 1
    /\ LET user == IF db = None THEN <<>> ELSE FindUser(users_collection, u)
       IN  IF db # None /\ failAt = "find_one"
           THEN /\ response' = ProfileResponse(u, "", FALSE, "find_one")
                /\ UNCHANGED <<pc, frame>>
           ELSE IF user = <<>>
           THEN /\ response' = ProfileResponse(u, "", FALSE, "none")
                /\ UNCHANGED <<pc, frame>>
           ELSE /\ pc' = [pc EXCEPT ![s] = "show_profile"]
                /\ frame' = [frame EXCEPT ![s] = UserFrame(u, "", "", now, user)]
                /\ UNCHANGED response
    /\ UNCHANGED <<db, users_collection, data_collection, consumption_collection, now>>

\* show_profile: update_data is built and update_one runs (lines 627-649);
\* its exception is caught and nothing is written
UpdateProfile(s, e, updated_at, failAt) ==
    /\ response = NoResponse
    /\ pc[s] = "show_profile"
    /\ updated_at \in frame[s].since..now
    /\ users_collection' =
           IF failAt = "update_one" THEN users_collection
           ELSE UpdateUser(users_collection, frame[s].username, e, updated_at)
    /\ response' = ProfileResponse(frame[s].username, e, failAt # "update_one", "none")
    /\ pc' = [pc EXCEPT ![s] = "idle"]
    /\ frame' = [frame EXCEPT ![s] = NoFrame]
    /\ UNCHANGED <<db, data_collection, consumption_collection, now, calls>>

NextUsers ==
    \/ Tick
    \/ Return
    \/ \E s \in Sessions, u \in Users, e \in Emails, p \in Passwords,
          failAt \in {"none", "find_one"} : CreateUser(s, u, e, p, failAt)
    \/ \E s \in Sessions, created_at \in 0..MaxTime, failAt \in {"none", "insert_one"} :
          CreateUserInsert(s, created_at, failAt)
    \/ \E s \in Sessions, u \in Users, e \in Emails, p \in Passwords,
          rule \in TruthRules, failAt \in {"none", "find_one"} :
          CreateUserApp(s, u, e, p, rule, failAt)
    \/ \E s \in Sessions, created_at \in 0..MaxTime, failAt \in {"none", "insert_one"} :
          CreateUserAppInsert(s, created_at, failAt)
    \/ \E s \in Sessions, u \in Users, p \in Passwords, failAt \in {"none", "find_one"} :
          Authenticate(s, u, p, failAt)
    \/ \E s \in Sessions, time1, time2, time3 \in 0..MaxTime,
          failAt \in {"none", "insert_one"} :
          AuthenticateLog(s, time1, time2, time3, failAt)
    \/ \E s \in Sessions, u \in Users, p \in Passwords, rule \in TruthRules,
          failAt \in {"none", "find_one"} : AuthenticateApp(s, u, p, rule, failAt)
    \/ \E s \in Sessions, u \in Users, failAt \in {"none", "find_one"} :
          ShowProfile(s, u, failAt)
    \/ \E s \in Sessions, e \in Emails, updated_at \in 0..MaxTime,
          failAt \in {"none", "update_one"} : UpdateProfile(s, e, updated_at, failAt)

SpecUsers == Init /\ [][NextUsers]_vars

(***************************************************************************)
(* Properties                                                              *)
(***************************************************************************)
Docs(seq) == {seq[i] : i \in DOMAIN seq}

SaveDone == response.op = "save" /\ response.ok

\* the documents keyed by the (username, today) of the save that just returned
SavedKey == Matches(consumption_collection, response.username, DateOf(response.today))

HoldsSubmitted(doc) ==
    /\ doc.appliances = response.args.appliances
    /\ doc.total_energy_kwh = response.args.total_energy
    /\ doc.estimated_cost = response.args.cost

\* C1: after any sequence of completed saves, by any users on any days, the
\* store holds at most one record for each (username, date) pair.
OneRecordPerUserDay ==
    \A i, j \in DOMAIN consumption_collection :
        (/\ consumption_collection[i].username = consumption_collection[j].username
         /\ consumption_collection[i].date = consumption_collection[j].date) => i = j

\* C2: two saves for the same user on the same day with different inputs leave
\* exactly one record for that (username, date), holding the appliances,
\* total_energy_kwh and estimated_cost of the later one with nothing of the
\* earlier one left: whenever a save has returned True, every record of its
\* key holds its values.
SaveLeavesOneRecordOfItsValues ==
    SaveDone =>
        /\ SavedKey # {}
        /\ \A i \in SavedKey : HoldsSubmitted(consumption_collection[i])

\* C3: when the saves of two sessions for the same (username, date) interleave,
\* then once both have completed exactly one record exists for that pair and
\* it holds the values of one of the two submissions.
ConcurrentSavesLeaveOneRecord ==
    (SaveDone /\ \A s \in Sessions : pc[s] = "idle") =>
        Cardinality(SavedKey) = 1

\* C4: get_user_consumption_data(username, days) returns exactly the records of
\* username whose date lies in the window of calendar days [today - days, today],
\* and the empty sequence when there is none; today is the day of the clock as
\* the call read it.
GetReturnsDateWindow ==
    (response.op = "get" /\ response.ok) =>
        Docs(response.result) =
            {doc \in Docs(consumption_collection) :
                /\ doc.username = response.username
                /\ DateOf(response.today) - response.days <= doc.date
                /\ doc.date <= DateOf(response.today)}

\* C5: the sequence get_user_consumption_data returns is non-decreasing by the
\* records' date field, whatever the order the records were written in.
GetSortedByDate ==
    response.op = "get" =>
        \A i, j \in DOMAIN response.result :
            i < j => response.result[i].date <= response.result[j].date

\* a query returned two records of different days that were written in the
\* opposite order
C5_Witness ==
    /\ response.op = "get"
    /\ \E i, j \in DOMAIN consumption_collection :
          /\ i < j
          /\ consumption_collection[i].date > consumption_collection[j].date
          /\ consumption_collection[i] \in Docs(response.result)
          /\ consumption_collection[j] \in Docs(response.result)

\* C6: get_user_consumption_data(username, 0) returns exactly today's record
\* when the user has one, the empty sequence when not, and never a record of
\* an earlier day.
GetZeroReturnsToday ==
    (response.op = "get" /\ response.ok /\ response.days = 0) =>
        Docs(response.result) =
            {doc \in Docs(consumption_collection) :
                doc.username = response.username /\ doc.date = DateOf(response.today)}

CountOf(appliances, kind) ==
    IF kind \in DOMAIN appliances THEN appliances[kind] ELSE 0

NonNegative(appliances) == \A k \in DOMAIN appliances : appliances[k] >= 0

\* C7: for a mapping with non-negative counts the energy is the sum over the
\* six known kinds of count times rate (0.2, 0.2, 0.3, 3.0, 3.1, 2.8); other
\* keys add nothing and raise nothing; an all-zero or empty mapping gives
\* energy 0 and cost 0; the example mapping gives 7.8 kWh.
CalcIsWeightedSum ==
    (response.op = "calc" /\ NonNegative(response.args.appliances)) =>
        LET a == response.args.appliances
        IN  /\ response.raised = "none"
            /\ response.args.total_energy =
                   200 * CountOf(a, "lights") + 200 * CountOf(a, "fans")
                   + 300 * CountOf(a, "tvs") + 3000 * CountOf(a, "ac")
                   + 3100 * CountOf(a, "fridge") + 2800 * CountOf(a, "washing_machine")
            /\ (\A k \in DOMAIN a : a[k] = 0) =>
                   response.args.total_energy = 0 /\ response.args.cost = 0
            /\ a = ExampleVector => response.args.total_energy = 7800

\* the energy of a mapping with a fridge and a key outside the rate table
C7_Witness ==
    /\ response.op = "calc"
    /\ NonNegative(response.args.appliances)
    /\ CountOf(response.args.appliances, "fridge") > 0
    /\ CountOf(response.args.appliances, "heater") > 0
    /\ response.args.total_energy > 0

\* C8: every stored record has its energy rounded to 2 decimal places and
\* estimated_cost = round(total_energy_kwh * 8, 2), and records saved from
\* the same appliance vector store the same energy and cost.
StoredCostIsRoundedTariff ==
    \A i \in DOMAIN consumption_collection :
        LET doc == consumption_collection[i]
        IN  /\ doc.total_energy_kwh % 10 = 0
            /\ doc.estimated_cost = Round2(doc.total_energy_kwh * 8)
            /\ \A j \in DOMAIN consumption_collection :
                  consumption_collection[j].appliances = doc.appliances =>
                      /\ consumption_collection[j].total_energy_kwh = doc.total_energy_kwh
                      /\ consumption_collection[j].estimated_cost = doc.estimated_cost

\* two records saved from the same non-zero vector
C8_Witness ==
    \E i, j \in DOMAIN consumption_collection :
        /\ i # j
        /\ consumption_collection[i].appliances = consumption_collection[j].appliances
        /\ consumption_collection[i].estimated_cost > 0

\* C9: the energy computation fails with InvalidInput exactly when some
\* appliance count of its input is negative.
NegativeCountRaisesInvalidInput ==
    response.op = "calc" =>
        (response.raised = "InvalidInput" <=> ~NonNegative(response.args.appliances))

\* C10: save_consumption_data returns success only if the record for
\* (username, today) holds the submitted values afterwards, and a save that
\* returns failure (no db, or a storage operation raised) leaves the store
\* exactly as it was before the call.
SaveNeverDropsWrite ==
    /\ [](SaveDone => \E i \in SavedKey : HoldsSubmitted(consumption_collection[i]))
    /\ [][(response'.op = "save" /\ ~response'.ok) =>
              consumption_collection' = consumption_collection]_vars

\* a save whose write raised while the day's record already existed
C10_Witness ==
    /\ response.op = "save"
    /\ ~response.ok
    /\ response.raised = "storage"
    /\ response.existing # NoDoc
    /\ response.existing \in Docs(consumption_collection)

\* C11: a storage failure of get_user_consumption_data (no connection, or the
\* query raised) gives the caller a result distinct from the empty sequence
\* returned when the user has no data.
GetFailureIsDistinct ==
    (response.op = "get" /\ ~response.ok) => response.result # <<>>

RECURSIVE SumOver(_, _, _)
SumOver(recs, field, idx) ==
    IF idx = {} THEN 0
    ELSE LET i == CHOOSE k \in idx : TRUE
         IN  recs[i][field] + SumOver(recs, field, idx \ {i})

\* C12: over N returned records, totalEnergy and totalCost are the sums of the
\* records' energy and cost, averageDaily = totalEnergy / N, monthlyProjection
\* = averageDaily x 30, the high-consumption days are exactly the records with
\* total_energy_kwh strictly above 15 kWh, and N = 0 gives "no data" with no
\* division.
AggregatesMatchRecords ==
    response.op \in {"dashboard", "analytics"} =>
        LET recs == response.result
            N    == Len(recs)
            view == response.view
            E    == SumOver(recs, "total_energy_kwh", DOMAIN recs)
            C    == SumOver(recs, "estimated_cost", DOMAIN recs)
            over == {i \in DOMAIN recs : recs[i].total_energy_kwh > 15000}
        IN  IF N = 0
            THEN view = [NoView EXCEPT !.state = "no_data"]
            ELSE /\ view.state = "shown"
                 /\ view.total_energy = E
                 /\ view.total_cost = C
                 /\ view.avg_daily.den # 0
                 /\ view.avg_daily.num * N = E * view.avg_daily.den
                 /\ response.op = "dashboard" =>
                        /\ view.monthly_projection.den # 0
                        /\ view.monthly_projection.num * N
                               = 30 * E * view.monthly_projection.den
                 /\ response.op = "analytics" =>
                        /\ Len(view.high_consumption) = Cardinality(over)
                        /\ \A i \in over :
                              \E j \in DOMAIN view.high_consumption :
                                  view.high_consumption[j] =
                                      <<recs[i].date, recs[i].total_energy_kwh>>

\* the analytics of three days, one of exactly 15 kWh and one above
C12_Witness ==
    /\ response.op = "analytics"
    /\ Len(response.result) = 3
    /\ \E i \in DOMAIN response.result : response.result[i].total_energy_kwh = 15000
    /\ Len(response.view.high_consumption) = 1

\* C13: a save call for (username, today), whether it inserts, overwrites or
\* fails, changes no record of another username and no record of the same
\* username for another date, and removes no record.
SaveTouchesOnlyItsKey ==
    [][/\ Len(consumption_collection') >= Len(consumption_collection)
       /\ \A i \in DOMAIN consumption_collection :
             /\ consumption_collection'[i]._id = consumption_collection[i]._id
             /\ consumption_collection'[i] # consumption_collection[i] =>
                   /\ response'.op = "save"
                   /\ consumption_collection[i].username = response'.username
                   /\ consumption_collection[i].date = DateOf(response'.today)]_vars

\* a save has overwritten the record of its key and returned True while the
\* store holds a record of another user and a record of the same user for
\* another day
C13_Witness ==
    /\ SaveDone
    /\ response.existing # NoDoc
    /\ \E i \in DOMAIN consumption_collection :
           consumption_collection[i].username # response.username
    /\ \E i \in DOMAIN consumption_collection :
           /\ consumption_collection[i].username = response.username
           /\ consumption_collection[i].date # DateOf(response.today)

\* C14: submitting the form with a total energy of 0 never calls
\* save_consumption_data: the store is left as it was, today's record
\* included, and no stored record has total_energy_kwh equal to 0.
ZeroFormNeverSaves ==
    /\ [](\A i \in DOMAIN consumption_collection :
             consumption_collection[i].total_energy_kwh # 0)
    /\ [][(response'.op = "form" /\ response'.args.total_energy = 0) =>
              consumption_collection' = consumption_collection]_vars

\* the all-zero form submitted by a user who has a record for today
C14_Witness ==
    /\ response.op = "form"
    /\ response.raised = "none"
    /\ response.args.appliances = FormVector(0)
    /\ Matches(consumption_collection, response.username, DateOf(now)) # {}

\* C15: in every reachable state each record's date is the calendar day of its
\* timestamp, also after an overwrite (timestamp and date are refreshed
\* together), so the order of the timestamps is an order of the dates and a
\* record returned by the timestamp filter is not dated before the day the
\* filter starts in.
DateIsDayOfTimestamp ==
    /\ \A i \in DOMAIN consumption_collection :
          LET doc == consumption_collection[i]
          IN  /\ doc.date * TicksPerDay <= doc.timestamp
              /\ doc.timestamp < (doc.date + 1) * TicksPerDay
    /\ \A i, j \in DOMAIN consumption_collection :
          consumption_collection[i].timestamp <= consumption_collection[j].timestamp =>
              consumption_collection[i].date <= consumption_collection[j].date
    /\ response.op = "get" =>
          \A k \in DOMAIN response.result :
              (response.result[k].date + 1) * TicksPerDay
                  > response.today - response.days * TicksPerDay

\* an overwrite later in the day has refreshed the record's timestamp
C15_Witness ==
    /\ SaveDone
    /\ response.existing # NoDoc
    /\ response.existing.timestamp < response.today
    /\ \E i \in SavedKey : consumption_collection[i].timestamp = response.today

\* C16: after any sequence of create_user calls (of lightCal.py or app.py) the
\* user store holds at most one account per username; a create_user call that
\* returns while the store has an account of its username leaves the store as
\* it was and does not return True; no step changes the username or the
\* password hash of an account; and authenticate_user returns an account only
\* when the given password hashes to the hash stored for that username.
ExistingUsernameIsRefused ==
    /\ [](\A i, j \in DOMAIN users_collection :
             users_collection[i].username = users_collection[j].username => i = j)
    /\ [][(/\ response'.op = "create_user"
           /\ MatchesUser(users_collection, response'.username) # {})
          => /\ users_collection' = users_collection
             /\ ~response'.ok]_vars
    /\ [][\A i \in DOMAIN users_collection :
             /\ i \in DOMAIN users_collection'
             /\ users_collection'[i].username = users_collection[i].username
             /\ users_collection'[i].password = users_collection[i].password]_vars
    /\ [](response.op = "authenticate_user" /\ response.ok =>
             /\ Len(response.result) = 1
             /\ response.result[1].username = response.username
             /\ \A i \in MatchesUser(users_collection, response.username) :
                   users_collection[i].password
                       = hash_password(response.credentials.password))

=============================================================================
